---- MODULE Spec2Model ----
(***************************************************************************)
(* Model of api_vk.py: export of a VK user's profile photos to a Yandex    *)
(* Disk folder.                                                            *)
(*                                                                         *)
(*   max_size            the size selector (a pure function)               *)
(*   VK.pars_photo       groups the photos by like count                   *)
(*   VK.extract_photo    names the photos and builds the export mapping    *)
(*   YandexDisk.create_folder / folder_rec / fill_folder                   *)
(*                        the destination store's client                   *)
(*                                                                         *)
(* Python values are modelled as follows.  A dict is an insertion-ordered  *)
(* sequence of [key, value] records with pairwise different keys.  A tuple *)
(* is a TLA+ tuple and None is the empty tuple.  An uncaught exception     *)
(* ends the program: pc = "crashed".                                       *)
(***************************************************************************)
EXTENDS Integers, Sequences, FiniteSets, TLC

VARIABLES
    pc,               \* position of the program
    dict_photo,       \* max_size: its argument
    size_result,      \* max_size: its return value
    photo_count,      \* get_photo_info: photo_info['count']
    photo_items,      \* get_photo_info: photo_info['items']
    result,           \* pars_photo: the dict likes_count -> list of photo records
    pars_pos,         \* pars_photo: the loop variable `count`
    element_pos,      \* extract_photo: position of `element` in photo_dict.keys()
    key_pos,          \* extract_photo: position of `key` in photo_dict[element]
    json_list,        \* extract_photo: json_list
    json_dict,        \* extract_photo: json_dict, the export mapping
    folders,          \* store: the folders that exist
    files,            \* store: the file names present in folder vk_photos
    pending,          \* store: accepted uploads (202) not yet fetched
    dict_files,       \* fill_folder: its argument
    files_in_folder,  \* fill_folder: the listing folder_rec returned
    count,            \* fill_folder: count
    item_pos,         \* fill_folder: position in dict_files.items()
    skipped,          \* fill_folder: keys reported as already existing, in order
    requests,         \* fill_folder: upload requests issued, in order, with the answer
    listing_status,   \* folder_rec: status code of this run's listing request
    prev_run,         \* summary of the previous finished fill_folder run
    last_call,        \* create_folder: the latest call, <<>> before the first
    prev_call         \* create_folder: the call before the latest, <<>> if none

vars == <<pc, dict_photo, size_result, photo_count, photo_items, result, pars_pos,
          element_pos, key_pos, json_list, json_dict, folders, files, pending,
          dict_files, files_in_folder, count, item_pos, skipped, requests,
          listing_status, prev_run, last_call, prev_call>>

sizeVars == <<dict_photo, size_result>>
exportVars == <<photo_count, photo_items, result, pars_pos, element_pos, key_pos,
                json_list, json_dict>>
storeVars == <<folders, files, pending>>
fillVars == <<dict_files, files_in_folder, count, item_pos, skipped, requests,
              listing_status, prev_run>>
folderVars == <<last_call, prev_call>>

----------------------------------------------------------------------------
(* Bounds of the model *)

MaxVariants == 3
MaxDim == 2
MaxPhotos == 3
MaxLikes == 2
MaxFiles == 2

----------------------------------------------------------------------------
(* Python values *)

None == <<>>

Range(s) == {s[i] : i \in 1..Len(s)}

DictKeys(d) == [i \in 1..Len(d) |-> d[i].key]

DictHas(d, k) == \E i \in 1..Len(d) : d[i].key = k

\* d.get(k, default)
DictGet(d, k, default) ==
    IF DictHas(d, k)
    THEN (CHOOSE e \in Range(d) : e.key = k).value
    ELSE default

\* d[k] = v: an existing key keeps its position, a new key goes last
DictSet(d, k, v) ==
    IF DictHas(d, k)
    THEN [i \in 1..Len(d) |-> IF d[i].key = k THEN [key |-> k, value |-> v] ELSE d[i]]
    ELSE Append(d, [key |-> k, value |-> v])

\* f'{n}' for an int n
Str(n) == ToString(n)

----------------------------------------------------------------------------
(* max_size *)

extent(variant) == variant.width * variant.height

\* the test of line 36
IsLargerLastWins(ext, maxim_size) == ext >= maxim_size

IsLarger(ext, maxim_size) == ext > maxim_size

\* the loop of lines 34-38, from iteration `number` on; returns `element`
RECURSIVE max_size_scan(_, _, _, _)
max_size_scan(photo, number, maxim_size, element) ==
    IF number >= Len(photo)
    THEN element
    ELSE IF IsLarger(extent(photo[number + 1]), maxim_size)
         THEN max_size_scan(photo, number + 1, extent(photo[number + 1]), number)
         ELSE max_size_scan(photo, number + 1, maxim_size, element)

max_size(photo) ==
    IF photo = <<>>
    THEN None
    ELSE LET element == max_size_scan(photo, 0, 0, -1)
         IN  IF element # -1
             THEN <<photo[element + 1].url, photo[element + 1].type>>
             ELSE None

----------------------------------------------------------------------------
(* Inputs *)

SeqsUpTo(S, n) == UNION {[1..k -> S] : k \in 0..n}

SizeTags == <<"s", "m", "x", "y", "z", "w">>

\* the `sizes` list of photo p with the given (width, height) pairs; every
\* variant has its own url
Sizes(p, dims) ==
    [i \in 1..Len(dims) |->
        [width |-> dims[i][1], height |-> dims[i][2],
         url |-> "p" \o Str(p) \o "v" \o Str(i), type |-> SizeTags[i]]]

DimPairs == (0..MaxDim) \X (0..MaxDim)

----------------------------------------------------------------------------
(* Values of the variables an operation does not use *)

SizeIdle == dict_photo = <<>> /\ size_result = None

ExportIdle ==
    /\ photo_count = 0 /\ photo_items = <<>> /\ result = <<>> /\ pars_pos = 0
    /\ element_pos = 0 /\ key_pos = 0 /\ json_list = <<>> /\ json_dict = <<>>

StoreIdle == folders = {} /\ files = {} /\ pending = {}

NoRun ==
    [finished |-> FALSE, attempted |-> {}, accepted |-> {}, skipped |-> {},
     stored |-> FALSE]

FillIdle ==
    /\ dict_files = <<>> /\ files_in_folder = {} /\ count = 0 /\ item_pos = 0
    /\ skipped = <<>> /\ requests = <<>> /\ listing_status = 0 /\ prev_run = NoRun

FolderIdle == last_call = <<>> /\ prev_call = <<>>

----------------------------------------------------------------------------
(* Specification SpecSize: max_size applied to every list of variants *)

InitSize ==
    /\ pc = "max_size"
    /\ dict_photo \in {Sizes(1, dims) : dims \in SeqsUpTo(DimPairs, MaxVariants)}
    /\ size_result = None
    /\ ExportIdle /\ StoreIdle /\ FillIdle /\ FolderIdle

CallMaxSize ==
    /\ pc = "max_size"
    /\ size_result' = max_size(dict_photo)
    /\ pc' = "max_size_done"
    /\ UNCHANGED <<dict_photo, exportVars, storeVars, fillVars, folderVars>>

NextSize == CallMaxSize

SpecSize == InitSize /\ [][NextSize]_vars

----------------------------------------------------------------------------
(* VK.pars_photo and VK.extract_photo *)

\* lines 115-119: the record pars_photo appends for a photo
photo_record(likes_count, selected) ==
    [file_name |-> likes_count, size |-> selected[2], url |-> selected[1]]

\* lines 136-139 with the test of line 136 always true
file_name_short(element, key, group) == Str(element) \o ".jpg"

\* lines 136-139: the name of photo `key` of the group photo_dict[element]
file_name(element, key, group) ==
    IF Len(group) = 1
    THEN Str(element) \o ".jpg"
    ELSE Str(element) \o " " \o Str(key.file_name) \o ".jpg"

\* line 141: the url stored under the name of photo `key`
export_url(element, key, group) == group[1].url

\* the (width, height) lists the photos of SpecExport are drawn from
SampleDims == {<<>>, <<<<1, 1>>>>, <<<<1, 2>>, <<2, 2>>>>, <<<<2, 1>>, <<1, 2>>>>}

\* photo_info['items'] built from like counts l and (width, height) lists d
Photos(n, l, d) == [i \in 1..n |-> [likes |-> l[i], sizes |-> Sizes(i, d[i])]]

InitExport ==
    /\ pc = "pars_photo"
    /\ \E n \in 0..MaxPhotos :
          \E l \in [1..n -> 0..MaxLikes], d \in [1..n -> SampleDims] :
             photo_items = Photos(n, l, d)
    /\ photo_count \in {Len(photo_items), Len(photo_items) + 1}
    /\ result = <<>> /\ pars_pos = 0
    /\ element_pos = 0 /\ key_pos = 0 /\ json_list = <<>> /\ json_dict = <<>>
    /\ SizeIdle /\ StoreIdle /\ FillIdle /\ FolderIdle

\* one iteration of the loop of lines 111-120
ParsPhotoStep ==
    /\ pc = "pars_photo"
    /\ pars_pos < photo_count
    /\ pars_pos < Len(photo_items)
    /\ LET item == photo_items[pars_pos + 1]
           likes_count == item.likes
           selected == max_size(item.sizes)
           value == DictGet(result, likes_count, <<>>)
       IN  /\ selected # None
           /\ result' = DictSet(result, likes_count,
                                Append(value, photo_record(likes_count, selected)))
    /\ pars_pos' = pars_pos + 1
    /\ UNCHANGED <<pc, photo_count, photo_items, element_pos, key_pos, json_list,
                   json_dict, sizeVars, storeVars, fillVars, folderVars>>

\* line 113: max_size returned None, unpacking it raises TypeError
ParsPhotoTypeError ==
    /\ pc = "pars_photo"
    /\ pars_pos < photo_count
    /\ pars_pos < Len(photo_items)
    /\ max_size(photo_items[pars_pos + 1].sizes) = None
    /\ pc' = "crashed"
    /\ UNCHANGED <<exportVars, sizeVars, storeVars, fillVars, folderVars>>

\* line 112: photo_count exceeds the items received, IndexError
ParsPhotoIndexError ==
    /\ pc = "pars_photo"
    /\ pars_pos < photo_count
    /\ pars_pos >= Len(photo_items)
    /\ pc' = "crashed"
    /\ UNCHANGED <<exportVars, sizeVars, storeVars, fillVars, folderVars>>

\* line 121, then lines 131-133
ParsPhotoReturn ==
    /\ pc = "pars_photo"
    /\ pars_pos = photo_count
    /\ pc' = "extract_photo"
    /\ UNCHANGED <<exportVars, sizeVars, storeVars, fillVars, folderVars>>

\* one iteration of the inner loop of lines 134-141
ExtractStep ==
    /\ pc = "extract_photo"
    /\ element_pos < Len(result)
    /\ LET element == result[element_pos + 1].key
           group == result[element_pos + 1].value
           key == group[key_pos + 1]
           name == file_name(element, key, group)
       IN  /\ json_list' = Append(json_list, [file_name |-> name, size |-> key.size])
           /\ json_dict' = DictSet(json_dict, name, export_url(element, key, group))
           /\ IF key_pos + 1 < Len(group)
              THEN key_pos' = key_pos + 1 /\ element_pos' = element_pos
              ELSE key_pos' = 0 /\ element_pos' = element_pos + 1
    /\ UNCHANGED <<pc, photo_count, photo_items, result, pars_pos,
                   sizeVars, storeVars, fillVars, folderVars>>

\* line 142
ExtractReturn ==
    /\ pc = "extract_photo"
    /\ element_pos = Len(result)
    /\ pc' = "extract_done"
    /\ UNCHANGED <<exportVars, sizeVars, storeVars, fillVars, folderVars>>

NextExport ==
    \/ ParsPhotoStep
    \/ ParsPhotoTypeError
    \/ ParsPhotoIndexError
    \/ ParsPhotoReturn
    \/ ExtractStep
    \/ ExtractReturn

SpecExport == InitExport /\ [][NextExport]_vars

----------------------------------------------------------------------------
(* The destination store, as the client sees it.  A request is answered    *)
(* with a status code and a JSON body.  An upload answered 202 is fetched  *)
(* by the store later, or never.                                           *)

StatusOK == 200
StatusCreated == 201
StatusAccepted == 202
StatusNotFound == 404

\* answers other than the ones the client tests for
Unauthorized == {401}
Conflict == {409}
Insufficient == {507}

FolderNames == {"vk_photos", "backup"}

\* self.folder_name, line 248
folder_name == "vk_photos"

\* GET resources?path=folder
GetStatuses(folder) ==
    (IF folder \in folders THEN {StatusOK} ELSE {StatusNotFound}) \cup Unauthorized

\* PUT resources?path=folder
PutStatuses(folder) ==
    (IF folder \in folders THEN Conflict ELSE {StatusCreated}) \cup Unauthorized

\* POST resources/upload?path=folder/key&url=...&overwrite=true
UploadStatuses(folder) ==
    IF folder \in folders THEN {StatusAccepted} \cup Insufficient ELSE Conflict

\* the names of the items of folder vk_photos in the body of a GET
ListedNames == files

StoreFetch ==
    /\ \E name \in pending :
          /\ pending' = pending \ {name}
          /\ files' = files \cup {name}
    /\ UNCHANGED <<pc, folders, sizeVars, exportVars, fillVars, folderVars>>

StoreFetchFails ==
    /\ \E name \in pending : pending' = pending \ {name}
    /\ UNCHANGED <<pc, folders, files, sizeVars, exportVars, fillVars, folderVars>>

----------------------------------------------------------------------------
(* YandexDisk.create_folder *)

\* line 182 testing for anything but 200
needs_create_unless_ok(status) == status # StatusOK

\* line 182
needs_create(status) == status = StatusNotFound

\* lines 180-193; the call is recorded with the requests it issued
CreateFolder ==
    /\ pc = "idle"
    /\ \E name \in FolderNames : \E get_status \in GetStatuses(name) :
          IF needs_create(get_status)
          THEN \E put_status \in PutStatuses(name) :
                  /\ folders' = IF put_status = StatusCreated
                                THEN folders \cup {name}
                                ELSE folders
                  /\ last_call' = <<[folder_name |-> name, get |-> get_status,
                                    puts |-> <<put_status>>,
                                    folders_after |-> folders']>>
          ELSE /\ folders' = folders
               /\ last_call' = <<[folder_name |-> name, get |-> get_status,
                                 puts |-> <<>>, folders_after |-> folders]>>
    /\ prev_call' = last_call
    /\ UNCHANGED <<pc, files, pending, sizeVars, exportVars, fillVars>>

InitFolder ==
    /\ pc = "idle"
    /\ folders \in SUBSET FolderNames
    /\ files = {} /\ pending = {}
    /\ SizeIdle /\ ExportIdle /\ FillIdle /\ FolderIdle

NextFolder == CreateFolder

SpecFolder == InitFolder /\ [][NextFolder]_vars

----------------------------------------------------------------------------
(* YandexDisk.folder_rec and YandexDisk.fill_folder *)

\* lines 208-214 testing for 201 instead of 200
folder_rec_created(status, names) == IF status = StatusCreated THEN names ELSE {}

\* lines 208-214 without the test of the status code
folder_rec_unchecked(status, names) == names

\* lines 208-214: the list folder_rec returns, as the set of its elements
folder_rec(status, names) == IF status = StatusOK THEN names ELSE {}

\* line 230 asking the store again instead of using the listing
in_folder_live(key) == key \in files

\* line 230: key in files_in_folder
in_folder(key) == key \in files_in_folder

\* line 231 passing the key where the url belongs
upload_params_key_as_url(key, url) ==
    [path |-> folder_name \o "/" \o key, url |-> key, overwrite |-> "true"]

\* line 231
upload_params(key, url) ==
    [path |-> folder_name \o "/" \o key, url |-> url, overwrite |-> "true"]

\* lines 233-235 counting every request
next_count_any(n, status) == n + 1

\* lines 233-235
next_count(n, status) == IF status = StatusAccepted THEN n + 1 ELSE n

RequestKeys == {requests[i].key : i \in 1..Len(requests)}

AcceptedKeys == {requests[i].key : i \in {j \in 1..Len(requests) :
                                             requests[j].status = StatusAccepted}}

FileNames == {"0.jpg", "1.jpg", "1 1.jpg"}

\* the dicts name -> url of at most MaxFiles entries, in every insertion order
FileDicts ==
    {[i \in 1..Len(names) |-> [key |-> names[i], value |-> "url" \o Str(i)]] :
        names \in {s \in SeqsUpTo(FileNames, MaxFiles) :
                      \A i, j \in 1..Len(s) : i # j => s[i] # s[j]}}

InitSync ==
    /\ pc = "idle"
    /\ dict_files \in FileDicts
    /\ folders \in SUBSET {folder_name}
    /\ files \in IF folder_name \in folders THEN SUBSET FileNames ELSE {{}}
    /\ pending = {}
    /\ files_in_folder = {} /\ count = 0 /\ item_pos = 0
    /\ skipped = <<>> /\ requests = <<>> /\ listing_status = 0 /\ prev_run = NoRun
    /\ SizeIdle /\ ExportIdle /\ FolderIdle

\* lines 227-228: the call, folder_rec and count = 0
FillStart ==
    /\ pc \in {"idle", "fill_done"}
    /\ \E status \in GetStatuses(folder_name) :
          /\ listing_status' = status
          /\ files_in_folder' = folder_rec(status, ListedNames)
    /\ count' = 0
    /\ item_pos' = 0
    /\ skipped' = <<>>
    /\ requests' = <<>>
    /\ prev_run' = IF pc = "fill_done"
                   THEN [finished |-> TRUE, attempted |-> RequestKeys,
                         accepted |-> AcceptedKeys, skipped |-> Range(skipped),
                         stored |-> AcceptedKeys \subseteq files]
                   ELSE NoRun
    /\ pc' = "fill_loop"
    /\ UNCHANGED <<dict_files, storeVars, sizeVars, exportVars, folderVars>>

\* lines 229-230, 238-239: the key is in the listing
FillSkip ==
    /\ pc = "fill_loop"
    /\ item_pos < Len(dict_files)
    /\ LET key == dict_files[item_pos + 1].key
       IN  /\ in_folder(key)
           /\ skipped' = Append(skipped, key)
    /\ item_pos' = item_pos + 1
    /\ UNCHANGED <<pc, dict_files, files_in_folder, count, requests, listing_status,
                   prev_run, storeVars, sizeVars, exportVars, folderVars>>

\* lines 229-237: the key is not in the listing, the upload request and its answer
FillUpload ==
    /\ pc = "fill_loop"
    /\ item_pos < Len(dict_files)
    /\ LET key == dict_files[item_pos + 1].key
           url == dict_files[item_pos + 1].value
       IN  /\ ~in_folder(key)
           /\ \E status \in UploadStatuses(folder_name) :
                 /\ requests' = Append(requests, [key |-> key,
                                                  params |-> upload_params(key, url),
                                                  status |-> status])
                 /\ count' = next_count(count, status)
                 /\ pending' = IF status = StatusAccepted
                               THEN pending \cup {key}
                               ELSE pending
    /\ item_pos' = item_pos + 1
    /\ UNCHANGED <<pc, dict_files, files_in_folder, skipped, listing_status, prev_run,
                   folders, files, sizeVars, exportVars, folderVars>>

\* line 240: the loop is over, count is printed
FillReturn ==
    /\ pc = "fill_loop"
    /\ item_pos = Len(dict_files)
    /\ pc' = "fill_done"
    /\ UNCHANGED <<fillVars, storeVars, sizeVars, exportVars, folderVars>>

NextSync ==
    \/ FillStart
    \/ FillSkip
    \/ FillUpload
    \/ FillReturn
    \/ StoreFetch
    \/ StoreFetchFails

SpecSync == InitSync /\ [][NextSync]_vars

----------------------------------------------------------------------------
(* Properties of max_size, checked under SpecSize *)

AllPositive(photo) == \A i \in 1..Len(photo) : photo[i].width > 0 /\ photo[i].height > 0

\* the index the size selector is to choose: the first one of maximal area
FirstLargest(photo) ==
    CHOOSE i \in 1..Len(photo) :
        /\ \A j \in 1..Len(photo) : extent(photo[j]) <= extent(photo[i])
        /\ \A j \in 1..(i - 1) : extent(photo[j]) < extent(photo[i])

\* C2: for a non-empty list of variants of positive width and height, max_size
\* returns the url and type of a variant of maximal area, and of the one with
\* the smallest index when several share the maximum.
C2_SelectBest ==
    (pc = "max_size_done" /\ dict_photo # <<>> /\ AllPositive(dict_photo)) =>
        \E i \in 1..Len(dict_photo) :
            /\ size_result = <<dict_photo[i].url, dict_photo[i].type>>
            /\ \A j \in 1..Len(dict_photo) : extent(dict_photo[j]) <= extent(dict_photo[i])
            /\ \A j \in 1..(i - 1) : extent(dict_photo[j]) < extent(dict_photo[i])

\* a tie for the maximum between the second and the third variant, after a
\* smaller first one; the second is returned
C2_Witness ==
    /\ pc = "max_size_done"
    /\ Len(dict_photo) = 3
    /\ AllPositive(dict_photo)
    /\ extent(dict_photo[1]) < extent(dict_photo[2])
    /\ extent(dict_photo[2]) = extent(dict_photo[3])
    /\ dict_photo[2].width # dict_photo[3].width
    /\ size_result = <<dict_photo[2].url, dict_photo[2].type>>

----------------------------------------------------------------------------
(* Properties of the export, checked under SpecExport *)

\* the positions of the photos with like count L, in input order
Group(L) == {i \in 1..Len(photo_items) : photo_items[i].likes = L}

Last(S) == CHOOSE i \in S : \A j \in S : j <= i

BestUrl(photo) == photo.sizes[FirstLargest(photo.sizes)].url

Named(name) == {i \in 1..Len(json_list) : json_list[i].file_name = name}

ShortName(L) == Str(L) \o ".jpg"

LongName(L) == Str(L) \o " " \o Str(L) \o ".jpg"

\* C1: when a like count L occurs k > 1 times, all k photos are named
\* "L L.jpg" and the export mapping holds under that name the best-variant url
\* of the last photo of the group in input order.
C1_LastUrlKept ==
    pc = "extract_done" =>
        \A L \in 0..MaxLikes :
            Cardinality(Group(L)) > 1 =>
                /\ Cardinality(Named(LongName(L))) = Cardinality(Group(L))
                /\ DictGet(json_dict, LongName(L), "") =
                       BestUrl(photo_items[Last(Group(L))])

\* C3: a photo's name depends only on its like count L and on the size of its
\* group: "L.jpg" for a group of one, "L L.jpg" for a larger one; when all like
\* counts differ, the names are "<likes>.jpg" and pairwise different.
C3_NamesByGroupSize ==
    pc = "extract_done" =>
        /\ Len(json_list) = Len(photo_items)
        /\ \A L \in 0..MaxLikes :
              /\ Cardinality(Group(L)) = 1 => Cardinality(Named(ShortName(L))) = 1
              /\ Cardinality(Group(L)) > 1 =>
                     Cardinality(Named(LongName(L))) = Cardinality(Group(L))
        /\ (\A L \in 0..MaxLikes : Cardinality(Group(L)) <= 1) =>
              /\ \A i \in 1..Len(json_list) :
                    json_list[i].file_name = ShortName(photo_items[i].likes)
              /\ \A i, j \in 1..Len(json_list) :
                    i # j => json_list[i].file_name # json_list[j].file_name

\* a finished export of a group of one photo and a group of two
C3_Witness ==
    /\ pc = "extract_done"
    /\ Len(photo_items) = 3
    /\ \E L, M \in 0..MaxLikes : Cardinality(Group(L)) = 1 /\ Cardinality(Group(M)) = 2
    /\ Len(json_list) = 3

Empties == {i \in 1..Len(photo_items) : photo_items[i].sizes = <<>>}

\* C6: when one photo of the collection has no size variant, building the
\* export set does not abort and every other photo gets its entry.
C6_EmptySizesSkipped ==
    (Cardinality(Empties) = 1 /\ photo_count = Len(photo_items)) =>
        /\ pc # "crashed"
        /\ pc = "extract_done" => Len(json_list) = Len(photo_items) - 1

----------------------------------------------------------------------------
(* Properties of fill_folder, checked under SpecSync *)

Running == pc \in {"fill_loop", "fill_done"}

Keys == DictKeys(dict_files)

\* the keys the loop has handled so far, in order
Handled == SubSeq(Keys, 1, item_pos)

Listed(k) == k \in files_in_folder

NotListed(k) == k \notin files_in_folder

RequestKeySeq == [i \in 1..Len(requests) |-> requests[i].key]

Accepted == {i \in 1..Len(requests) : requests[i].status = StatusAccepted}

\* C4: fill_folder handles each key of the export mapping exactly once, in
\* insertion order; a key is skipped iff it is in the remote listing, otherwise
\* an upload request carrying its url is issued; the skipped and the uploaded
\* names are disjoint and together are the key set.
C4_PartitionInOrder ==
    Running =>
        /\ skipped = SelectSeq(Handled, Listed)
        /\ RequestKeySeq = SelectSeq(Handled, NotListed)
        /\ \A i \in 1..Len(requests) :
              /\ requests[i].params.url = DictGet(dict_files, requests[i].key, "")
              /\ requests[i].params.path = "vk_photos/" \o requests[i].key
        /\ pc = "fill_done" =>
              /\ item_pos = Len(dict_files)
              /\ Range(skipped) \cap RequestKeys = {}
              /\ Range(skipped) \cup RequestKeys = Range(Keys)

\* a finished run that skipped one key and uploaded another
C4_Witness ==
    /\ pc = "fill_done"
    /\ skipped # <<>>
    /\ requests # <<>>

\* C5: after a failed upload request the later entries are still processed,
\* the run reaches its end, and the reported count is the number of requests
\* answered 202.
C5_ContinueAfterFailure ==
    /\ (pc = "fill_loop" /\ Accepted # 1..Len(requests)) =>
           ENABLED (FillSkip \/ FillUpload \/ FillReturn)
    /\ pc = "fill_done" =>
           /\ Len(skipped) + Len(requests) = Len(dict_files)
           /\ count = Cardinality(Accepted)

\* a finished run whose first request failed and whose second was accepted
C5_Witness ==
    /\ pc = "fill_done"
    /\ Len(requests) = 2
    /\ requests[1].status # StatusAccepted
    /\ requests[2].status = StatusAccepted
    /\ count = 1

\* C8: every decision of a run uses the one listing taken at its start, which
\* the files arriving during the run do not change; so the numbers of skipped
\* and of uploaded entries depend on the key set and that listing only, not on
\* the order of the entries.
C8_SingleListing ==
    [][pc = "fill_loop" =>
          /\ files_in_folder' = files_in_folder
          /\ item_pos' = item_pos + 1 =>
                LET key == dict_files[item_pos + 1].key
                IN  IF key \in files_in_folder
                    THEN skipped' = Append(skipped, key) /\ requests' = requests
                    ELSE skipped' = skipped /\ Len(requests') = Len(requests) + 1
          /\ pc' = "fill_done" =>
                /\ Len(skipped) = Cardinality(Range(Keys) \cap files_in_folder)
                /\ Len(requests) = Cardinality(Range(Keys) \ files_in_folder)]_vars

\* a finished run: its first upload has arrived in the folder, the listing
\* was not empty, and a later entry was uploaded all the same
C8_Witness ==
    /\ pc = "fill_done"
    /\ listing_status = StatusOK
    /\ Len(requests) = 2
    /\ requests[1].key \in files
    /\ files # files_in_folder

PreviousRunStored ==
    /\ Running
    /\ prev_run.finished
    /\ prev_run.attempted = prev_run.accepted
    /\ prev_run.stored

NothingToDo ==
    /\ requests = <<>>
    /\ pc = "fill_done" => count = 0 /\ skipped = Keys

C10_FailedListingUploadsAll ==
    (Running /\ listing_status # StatusOK) =>
        /\ files_in_folder = {}
        /\ skipped = <<>>
        /\ RequestKeySeq = Handled

\* a first run after a failed listing: a name the folder held from the start
\* was uploaded, and the request was refused
C10_Witness ==
    /\ pc = "fill_done"
    /\ ~prev_run.finished
    /\ listing_status # StatusOK
    /\ \E i \in 1..Len(requests) :
          requests[i].status # StatusAccepted /\ requests[i].key \in files

----------------------------------------------------------------------------
(* Properties of create_folder, checked under SpecFolder *)

Calls == prev_call \o last_call

Nominal(c) ==
    /\ c.get \in {StatusOK, StatusNotFound}
    /\ \A i \in 1..Len(c.puts) : c.puts[i] = StatusCreated

\* C7: create_folder issues a create request exactly when the check answers
\* 404, none when it answers 200; two calls in a row for the same folder,
\* against a store where the check and the creation succeed, issue one create
\* request when the folder was missing (none when it was there) and leave the
\* folders as the first call left them.
C7_CheckThenCreate ==
    /\ \A i \in 1..Len(Calls) :
          /\ Calls[i].puts # <<>> <=> Calls[i].get = StatusNotFound
          /\ Calls[i].get = StatusOK => Calls[i].puts = <<>>
          /\ Len(Calls[i].puts) <= 1
    /\ (/\ Len(Calls) = 2
        /\ Calls[1].folder_name = Calls[2].folder_name
        /\ Nominal(Calls[1])
        /\ Nominal(Calls[2])) =>
           /\ Len(Calls[1].puts) + Len(Calls[2].puts) =
                  (IF Calls[1].get = StatusNotFound THEN 1 ELSE 0)
           /\ Calls[2].puts = <<>>
           /\ Calls[2].folders_after = Calls[1].folders_after
           /\ Calls[1].folder_name \in Calls[2].folders_after

\* two calls in a row for a missing folder: the first created it, the second
\* found it
C7_Witness ==
    /\ Len(Calls) = 2
    /\ Calls[1].folder_name = Calls[2].folder_name
    /\ Calls[1].get = StatusNotFound
    /\ Calls[1].puts = <<StatusCreated>>
    /\ Calls[2].get = StatusOK
    /\ Calls[2].puts = <<>>

====
